---- MODULE Spec2Model ----
(***************************************************************************)
(* AutoHarmonizer (Teensy 4.0 sketch): the polling loop that decodes the   *)
(* rotary encoder into a semitone offset, retains the last frequency       *)
(* observation, and renders three text lines every 120 ms.                 *)
(*                                                                         *)
(* One loop() iteration is three steps taken in program order, tracked by  *)
(* pc: "encoder" (lines 125-138), "frequency" (141-151), "render"          *)
(* (154-195).  The sketch is single-threaded and polls, so a step is       *)
(* atomic.  The environment supplies the pin levels, the estimator's       *)
(* readings and the millisecond counter.                                   *)
(*                                                                         *)
(* Numbers.  A float frequency is a point of a geometric grid around       *)
(* 440 Hz: the positive reading with index q is 440 * 2^(q / (12*HzGrid)), *)
(* so that 69 + 12*log2(hz/440) is the rational 69 + q/HzGrid; float       *)
(* rounding error of logf is not modelled.  uint32_t values are pairs of   *)
(* 16-bit halves, since 2^32 is beyond the integers of TLC.                *)
(***************************************************************************)
EXTENDS Integers, Sequences, FiniteSets, TLC

VARIABLES
  pc,           \* position in loop(): "encoder", "frequency" or "render"
  encPrev,      \* uint8_t encPrev: previous 2-bit sample
  encAcc,       \* int encAcc: accumulated edges
  semitones,    \* int semitones
  speed,        \* ratio last given to granular1.setSpeed
  lastHz,       \* float lastHz
  lastMidi,     \* int lastMidi
  lastDraw,     \* uint32_t lastDraw
  clock,        \* value of the millisecond counter at its latest read
  setSpeedLog,  \* ratios given to setSpeed by the step just taken
  drawn,        \* draw requests of the step just taken, or NoFrame
  hzRead,       \* reading consumed by the latest frequency step that had one
  heldMidi,     \* lastMidi just before that reading was consumed
  edgeTotal,    \* history: signed total of the edge deltas since power-on
  detentCount,  \* history: increment minus decrement detents since power-on
  incRun,       \* history: increment detents in a row since offset 0, or -1
  emitted,      \* history: <<increment, decrement>> detents of the step just taken
  uptime,       \* history: real milliseconds since the initial state
  sinceDraw,    \* history: real milliseconds since lastDraw was assigned
  gateGap,      \* history: sinceDraw at the latest read of the render gate
  fresh,        \* history: what this iteration assigned before its render
  turned,       \* history: edges the shaft moved between the two samples of
                \* the encoder step just taken, where the run tracks them
  arg,          \* argument of the helper applied last (helper specifications)
  res           \* its result

loopVars == <<pc, encPrev, encAcc, semitones, speed, lastHz, lastMidi,
              lastDraw, clock, setSpeedLog, drawn, hzRead, heldMidi,
              edgeTotal, detentCount, incRun, emitted, uptime, sinceDraw, gateGap,
              fresh, turned>>
vars == <<pc, encPrev, encAcc, semitones, speed, lastHz, lastMidi,
          lastDraw, clock, setSpeedLog, drawn, hzRead, heldMidi,
          edgeTotal, detentCount, incRun, emitted, uptime, sinceDraw, gateGap,
          fresh, turned, arg, res>>

----------------------------------------------------------------------------
(* Program constants *)

SEMI_MAX == 12
SEMI_MIN == -12
EDGES_PER_DETENT == 4
MIDI_MAX == 127
A4_MIDI == 69
DRAW_PERIOD == 120
IN_NAME_LEN == 8
BOTTOM_LEN == 16

(* Bounds of the model *)

MaxEdges == 52       \* |edgeTotal| stays within this many edges
MaxTurn == 124       \* the same, where the knob alone is turned
MaxNudge == 8        \* the same, where the estimator or the clock is exercised
MaxBeyond == 3       \* notes below 0 and above 127 that the helpers are given
HzGrid == 2          \* grid points per semitone of the frequency readings
MaxElapsed == 250    \* real milliseconds covered by the clock specification
WrapLead == 100      \* ms before the counter wraps, for the late boot clock
MaxSpin == 9         \* edges the shaft moves between two samples, at most

----------------------------------------------------------------------------
(* Integer helpers with C semantics *)

Abs(x) == IF x < 0 THEN -x ELSE x
Min(a, b) == IF a < b THEN a ELSE b

\* C division and remainder truncate toward zero.
CDiv(a, b) == IF a >= 0 THEN a \div b ELSE -((-a) \div b)
CRem(a, b) == a - b * CDiv(a, b)

\* Arduino constrain(x, lo, hi)
constrain(x, lo, hi) == IF x < lo THEN lo ELSE IF x > hi THEN hi ELSE x

(* uint32_t as two 16-bit halves *)
Half == 2^16
U32(n) == [hi |-> n \div Half, lo |-> n % Half]
Add32(a, d) ==
  LET s == a.lo + d
  IN  [hi |-> (a.hi + (s \div Half)) % Half, lo |-> s % Half]
Sub32(a, b) ==
  IF a.lo >= b.lo
  THEN [hi |-> (a.hi - b.hi) % Half, lo |-> a.lo - b.lo]
  ELSE [hi |-> (a.hi - b.hi - 1) % Half, lo |-> a.lo - b.lo + Half]
\* a >= k for a small constant k
Ge32(a, k) == a.hi > 0 \/ a.lo >= k

----------------------------------------------------------------------------
(* Rotary encoder *)

\* Variant of the table: the two-bit jump 00 -> 11 counted as an edge
ENC_TAB_Bounce == << 0, -1,  1, -1,
                     1,  0,  0, -1,
                    -1,  0,  0,  1,
                     0,  1, -1,  0 >>

ENC_TAB == << 0, -1,  1,  0,
              1,  0,  0, -1,
             -1,  0,  0,  1,
              0,  1, -1,  0 >>

\* encRead2: (A << 1) | B for pin levels a, b in {0,1}
encRead2(a, b) == 2 * a + b

\* (encPrev << 2) | encNow as uint8_t; the two fields do not overlap
EncIdx(prev, now) == (4 * prev + now) % 256

\* applyPitch: ratio = powf(2, semitones / 12.0f), kept as its exponent
applyPitch(s) == [base |-> 2, num |-> s, den |-> 12]

\* Variants of the increment loop: no saturation test; a threshold one edge
\* late; applyPitch on every detent
RECURSIVE DrainUpNoSat(_, _)
DrainUpNoSat(acc, semi) ==
  IF acc >= EDGES_PER_DETENT
  THEN LET r == DrainUpNoSat(acc - EDGES_PER_DETENT, semi + 1)
       IN  [acc |-> r.acc, semi |-> r.semi, n |-> r.n + 1,
            calls |-> <<applyPitch(semi + 1)>> \o r.calls]
  ELSE [acc |-> acc, semi |-> semi, n |-> 0, calls |-> <<>>]

RECURSIVE DrainUpLate(_, _)
DrainUpLate(acc, semi) ==
  IF acc > EDGES_PER_DETENT
  THEN LET moved == semi < SEMI_MAX
           s     == IF moved THEN semi + 1 ELSE semi
           r     == DrainUpLate(acc - EDGES_PER_DETENT, s)
       IN  [acc |-> r.acc, semi |-> r.semi, n |-> r.n + 1,
            calls |-> (IF moved THEN <<applyPitch(s)>> ELSE <<>>) \o r.calls]
  ELSE [acc |-> acc, semi |-> semi, n |-> 0, calls |-> <<>>]

RECURSIVE DrainUpAlwaysPush(_, _)
DrainUpAlwaysPush(acc, semi) ==
  IF acc >= EDGES_PER_DETENT
  THEN LET moved == semi < SEMI_MAX
           s     == IF moved THEN semi + 1 ELSE semi
           r     == DrainUpAlwaysPush(acc - EDGES_PER_DETENT, s)
       IN  [acc |-> r.acc, semi |-> r.semi, n |-> r.n + 1,
            calls |-> <<applyPitch(s)>> \o r.calls]
  ELSE [acc |-> acc, semi |-> semi, n |-> 0, calls |-> <<>>]

\* Variant of the increment loop: while (encAcc >= 4 && semitones < 12), so
\* that edges beyond the bound stay in the accumulator
RECURSIVE DrainUpQueue(_, _)
DrainUpQueue(acc, semi) ==
  IF acc >= EDGES_PER_DETENT /\ semi < SEMI_MAX
  THEN LET r == DrainUpQueue(acc - EDGES_PER_DETENT, semi + 1)
       IN  [acc |-> r.acc, semi |-> r.semi, n |-> r.n + 1,
            calls |-> <<applyPitch(semi + 1)>> \o r.calls]
  ELSE [acc |-> acc, semi |-> semi, n |-> 0, calls |-> <<>>]

\* Variant of the increment loop: at the bound the accumulator is held one
\* edge short of a detent instead of being drained
RECURSIVE DrainUpHold(_, _)
DrainUpHold(acc, semi) ==
  IF acc >= EDGES_PER_DETENT
  THEN IF semi < SEMI_MAX
       THEN LET r == DrainUpHold(acc - EDGES_PER_DETENT, semi + 1)
            IN  [acc |-> r.acc, semi |-> r.semi, n |-> r.n + 1,
                 calls |-> <<applyPitch(semi + 1)>> \o r.calls]
       ELSE [acc |-> EDGES_PER_DETENT - 1, semi |-> semi, n |-> 1, calls |-> <<>>]
  ELSE [acc |-> acc, semi |-> semi, n |-> 0, calls |-> <<>>]

\* while (encAcc >= 4) { encAcc -= 4; if (semitones < 12) { semitones++; applyPitch(); } }
RECURSIVE DrainUp(_, _)
DrainUp(acc, semi) ==
  IF acc >= EDGES_PER_DETENT
  THEN LET moved == semi < SEMI_MAX
           s     == IF moved THEN semi + 1 ELSE semi
           r     == DrainUp(acc - EDGES_PER_DETENT, s)
       IN  [acc |-> r.acc, semi |-> r.semi, n |-> r.n + 1,
            calls |-> (IF moved THEN <<applyPitch(s)>> ELSE <<>>) \o r.calls]
  ELSE [acc |-> acc, semi |-> semi, n |-> 0, calls |-> <<>>]

\* Variant of the decrement loop: a threshold one edge late
RECURSIVE DrainDownLate(_, _)
DrainDownLate(acc, semi) ==
  IF acc < -EDGES_PER_DETENT
  THEN LET moved == semi > SEMI_MIN
           s     == IF moved THEN semi - 1 ELSE semi
           r     == DrainDownLate(acc + EDGES_PER_DETENT, s)
       IN  [acc |-> r.acc, semi |-> r.semi, n |-> r.n + 1,
            calls |-> (IF moved THEN <<applyPitch(s)>> ELSE <<>>) \o r.calls]
  ELSE [acc |-> acc, semi |-> semi, n |-> 0, calls |-> <<>>]

\* Variant of the decrement loop: applyPitch called before the decrement
RECURSIVE DrainDownPushFirst(_, _)
DrainDownPushFirst(acc, semi) ==
  IF acc <= -EDGES_PER_DETENT
  THEN LET moved == semi > SEMI_MIN
           s     == IF moved THEN semi - 1 ELSE semi
           r     == DrainDownPushFirst(acc + EDGES_PER_DETENT, s)
       IN  [acc |-> r.acc, semi |-> r.semi, n |-> r.n + 1,
            calls |-> (IF moved THEN <<applyPitch(semi)>> ELSE <<>>) \o r.calls]
  ELSE [acc |-> acc, semi |-> semi, n |-> 0, calls |-> <<>>]

\* while (encAcc <= -4) { encAcc += 4; if (semitones > -12) { semitones--; applyPitch(); } }
RECURSIVE DrainDown(_, _)
DrainDown(acc, semi) ==
  IF acc <= -EDGES_PER_DETENT
  THEN LET moved == semi > SEMI_MIN
           s     == IF moved THEN semi - 1 ELSE semi
           r     == DrainDown(acc + EDGES_PER_DETENT, s)
       IN  [acc |-> r.acc, semi |-> r.semi, n |-> r.n + 1,
            calls |-> (IF moved THEN <<applyPitch(s)>> ELSE <<>>) \o r.calls]
  ELSE [acc |-> acc, semi |-> semi, n |-> 0, calls |-> <<>>]

\* Variant of the edge delta: the bits that changed are counted, so a sample
\* that differs in both bits counts as two edges
EdgeDeltaByBits(prev, now) ==
  IF now # prev
  THEN (IF ENC_TAB[EncIdx(prev, now) + 1] = 0 THEN 2 ELSE -ENC_TAB[EncIdx(prev, now) + 1])
  ELSE 0

\* The edge delta of one poll: what "encAcc -= ENC_TAB[idx]" adds to encAcc
EdgeDelta(prev, now) == IF now # prev THEN -ENC_TAB[EncIdx(prev, now) + 1] ELSE 0

\* The quadrature cycle that ENC_TAB encodes: the sample one edge after s in
\* the increment direction, one edge before it, and k edges along from it
NextSample(s) == CHOOSE n \in 0..3 : n # s /\ ENC_TAB[EncIdx(s, n) + 1] = -1
PrevSample(s) == CHOOSE n \in 0..3 : n # s /\ ENC_TAB[EncIdx(s, n) + 1] = 1

RECURSIVE Turn(_, _)
Turn(s, k) ==
  IF k = 0 THEN s
  ELSE IF k > 0 THEN Turn(NextSample(s), k - 1)
  ELSE Turn(PrevSample(s), k + 1)

\* The encoder block of loop() on sample encNow
Poll(prev, now, acc, semi) ==
  IF now # prev
  THEN LET up   == DrainUp(acc + EdgeDelta(prev, now), semi)
           down == DrainDown(up.acc, up.semi)
       IN  [encPrev |-> now, encAcc |-> down.acc, semitones |-> down.semi,
            ups |-> up.n, downs |-> down.n, calls |-> up.calls \o down.calls]
  ELSE [encPrev |-> prev, encAcc |-> acc, semitones |-> semi,
        ups |-> 0, downs |-> 0, calls |-> <<>>]

----------------------------------------------------------------------------
(* Text: a string is a sequence of one-character strings *)

DigitChar == <<"0", "1", "2", "3", "4", "5", "6", "7", "8", "9">>

RECURSIVE Digits(_)
Digits(n) == IF n < 10 THEN <<DigitChar[n + 1]>>
             ELSE Digits(n \div 10) \o <<DigitChar[(n % 10) + 1]>>

\* printf "%d" and "%+d"
FmtD(n) == IF n < 0 THEN <<"-">> \o Digits(-n) ELSE Digits(n)
FmtPlusD(n) == IF n < 0 THEN <<"-">> \o Digits(-n) ELSE <<"+">> \o Digits(n)

\* snprintf(out, outLen, ...): at most outLen - 1 characters are stored
Snprintf(outLen, text) == SubSeq(text, 1, Min(Len(text), outLen - 1))

----------------------------------------------------------------------------
(* Note helpers *)

NOTE_NAMES == << <<"C">>, <<"C", "#">>, <<"D">>, <<"D", "#">>, <<"E">>, <<"F">>,
                 <<"F", "#">>, <<"G">>, <<"G", "#">>, <<"A">>, <<"A", "#">>, <<"B">> >>

\* Variant of midiToName: the octave without its offset of -1
midiToNameNoOffset(n, out, outLen) ==
  IF n < 0 \/ n > MIDI_MAX
  THEN [ok |-> FALSE, out |-> out]
  ELSE LET noteIndex == CRem(CRem(n, 12) + 12, 12)
           octave    == CDiv(n, 12)
       IN  [ok |-> TRUE,
            out |-> Snprintf(outLen, NOTE_NAMES[noteIndex + 1] \o FmtD(octave))]

\* bool midiToName(int n, char* out, size_t outLen): the return value and
\* the buffer afterwards
midiToName(n, out, outLen) ==
  IF n < 0 \/ n > MIDI_MAX
  THEN [ok |-> FALSE, out |-> out]
  ELSE LET noteIndex == CRem(CRem(n, 12) + 12, 12)
           octave    == CDiv(n, 12) - 1
       IN  [ok |-> TRUE,
            out |-> Snprintf(outLen, NOTE_NAMES[noteIndex + 1] \o FmtD(octave))]

(* Frequencies.  kind "num": sign 0 is 0.0f, sign 1 is 440*2^(q/(12*HzGrid)), *)
(* sign -1 is the negative of that; kind "inf" and "nan" are the non-finite  *)
(* floats.                                                                    *)
Hz(q) == [kind |-> "num", sign |-> 1, q |-> q]
NegHz(q) == [kind |-> "num", sign |-> -1, q |-> q]
ZeroHz == [kind |-> "num", sign |-> 0, q |-> 0]
PosInf == [kind |-> "inf", sign |-> 1, q |-> 0]
NegInf == [kind |-> "inf", sign |-> -1, q |-> 0]
NaN == [kind |-> "nan", sign |-> 0, q |-> 0]

\* hz <= 0.0f, hz > 0.0f (both false of NaN) and isfinite(hz)
LeZero(hz) == hz.kind # "nan" /\ hz.sign <= 0
GtZero(hz) == hz.kind # "nan" /\ hz.sign > 0
isfinite(hz) == hz.kind = "num"

\* 69.0f + 12.0f * logf(hz / 440.0f) / logf(2.0f), as a fraction
NFloat(hz) == [num |-> A4_MIDI * HzGrid + hz.q, den |-> HzGrid]

\* lroundf: to nearest, ties away from zero
lroundf(x) ==
  IF x.num >= 0
  THEN (2 * x.num + x.den) \div (2 * x.den)
  ELSE -((2 * (-x.num) + x.den) \div (2 * x.den))

\* lrintf in the default rounding mode: to nearest, ties to even
lrintf(x) ==
  LET f  == x.num \div x.den
      r2 == 2 * (x.num - f * x.den)
  IN  IF r2 < x.den THEN f
      ELSE IF r2 > x.den THEN f + 1
      ELSE IF f % 2 = 0 THEN f ELSE f + 1

\* Variant of hzToNearestMidi: a note number outside [0, 127] is rejected
hzToNearestMidiReject(hz, midiOut) ==
  IF LeZero(hz) \/ ~isfinite(hz)
  THEN [ok |-> FALSE, midiOut |-> midiOut]
  ELSE LET m == lrintf(NFloat(hz))
       IN  IF m < 0 \/ m > MIDI_MAX
           THEN [ok |-> FALSE, midiOut |-> midiOut]
           ELSE [ok |-> TRUE, midiOut |-> m]

\* bool hzToNearestMidi(float hz, int &midiOut): the return value and
\* midiOut afterwards
hzToNearestMidi(hz, midiOut) ==
  IF LeZero(hz) \/ ~isfinite(hz)
  THEN [ok |-> FALSE, midiOut |-> midiOut]
  ELSE LET m == lrintf(NFloat(hz))
       IN  [ok |-> TRUE,
            midiOut |-> IF m < 0 THEN 0 ELSE IF m > MIDI_MAX THEN MIDI_MAX ELSE m]

----------------------------------------------------------------------------
(* The render block: the three lines handed to the display *)

SHIFT_LEN == 8

\* Contents of char inName[8] before midiToName fills it
Indeterminate == <<"?">>

\* drawn when the step just taken rendered nothing
NoFrame == [rendered |-> FALSE, blankTop |-> TRUE, hz |-> ZeroHz, inName |-> <<>>,
            middle |-> <<>>, bottom |-> <<>>, inOk |-> TRUE, outOk |-> TRUE]

\* Variant of Frame: the output note is not constrained to [0, 127]
FrameNoClamp(midi, hz, semi) ==
  LET showIn == midi >= 0 /\ GtZero(hz)
      inNm   == midiToName(midi, Indeterminate, IN_NAME_LEN)
      outNm  == midiToName(midi + semi, <<"-", "-">>, BOTTOM_LEN)
  IN  [rendered |-> TRUE,
       blankTop |-> ~showIn,
       hz       |-> IF showIn THEN hz ELSE ZeroHz,
       inName   |-> IF showIn THEN inNm.out ELSE <<>>,
       middle   |-> Snprintf(SHIFT_LEN, FmtPlusD(semi)),
       bottom   |-> IF midi >= 0 THEN outNm.out ELSE <<"-", "-">>,
       inOk     |-> IF showIn THEN inNm.ok ELSE TRUE,
       outOk    |-> IF midi >= 0 THEN outNm.ok ELSE TRUE]

\* Lines 159-192.  blankTop is the top line "-- Hz  --"; otherwise the top
\* line is "%d Hz  %s" of (int)(hz + 0.5f) and inName.  inOk and outOk are
\* the return values of the two midiToName calls (TRUE where not called).
Frame(midi, hz, semi) ==
  LET showIn == midi >= 0 /\ GtZero(hz)
      inNm   == midiToName(midi, Indeterminate, IN_NAME_LEN)
      outNm  == midiToName(constrain(midi + semi, 0, MIDI_MAX), <<"-", "-">>, BOTTOM_LEN)
  IN  [rendered |-> TRUE,
       blankTop |-> ~showIn,
       hz       |-> IF showIn THEN hz ELSE ZeroHz,
       inName   |-> IF showIn THEN inNm.out ELSE <<>>,
       middle   |-> Snprintf(SHIFT_LEN, FmtPlusD(semi)),
       bottom   |-> IF midi >= 0 THEN outNm.out ELSE <<"-", "-">>,
       inOk     |-> IF showIn THEN inNm.ok ELSE TRUE,
       outOk    |-> IF midi >= 0 THEN outNm.ok ELSE TRUE]

----------------------------------------------------------------------------
(* The loop *)

\* Variant of the render gate: millis() >= lastDraw + 120, the sum in 32 bits
DrawDueBySum(now, last) ==
  LET due == Add32(last, DRAW_PERIOD)
  IN  now.hi > due.hi \/ (now.hi = due.hi /\ now.lo >= due.lo)

\* Variant of the render gate: millis() >= lastDraw + 120, the sum in
\* arithmetic wider than 32 bits
DrawDueWide(now, last) ==
  LET lo == last.lo + DRAW_PERIOD
      hi == last.hi + (lo \div Half)
  IN  now.hi > hi \/ (now.hi = hi /\ now.lo >= lo % Half)

\* millis() - lastDraw >= 120, the difference in 32 bits
DrawDue(now, last) == Ge32(Sub32(now, last), DRAW_PERIOD)

\* Nothing assigned yet in the iteration
Untouched == [offset |-> FALSE, note |-> FALSE]

NoReading == [kind |-> "none", sign |-> 0, q |-> 0]

\* arg and res while no helper is being applied
NoCall == [fn |-> "none", hz |-> ZeroHz, n |-> 0, buf |-> <<>>, len |-> 0]
NoResult == [done |-> FALSE, ok |-> FALSE, midiOut |-> 0, out |-> <<>>]

\* setup() and the initialisers of the globals.  The counter and lastDraw
\* start equal: 0 at power-on, or a value just before the counter wraps,
\* the state right after a render late in a long run.
InitLoop(boots) ==
  /\ pc = "encoder"
  /\ encPrev \in 0..3
  /\ encAcc = 0
  /\ semitones = 0
  /\ speed = applyPitch(0)
  /\ lastHz = ZeroHz
  /\ lastMidi = -1
  /\ clock \in boots
  /\ lastDraw = clock
  /\ setSpeedLog = <<>>
  /\ drawn = NoFrame
  /\ hzRead = NoReading
  /\ heldMidi = -1
  /\ edgeTotal = 0
  /\ detentCount = 0
  /\ incRun = 0
  /\ emitted = <<0, 0>>
  /\ uptime = 0
  /\ sinceDraw = 0
  /\ gateGap = 0
  /\ fresh = Untouched
  /\ turned = 0
  /\ arg = NoCall
  /\ res = NoResult

\* incRun after a poll that emitted ups increment and downs decrement detents
RunAfter(run, ups, downs, semi) ==
  IF downs > 0 THEN (IF semi = 0 THEN 0 ELSE -1)
  ELSE IF ups > 0 THEN (IF run >= 0 THEN run + ups ELSE IF semi = 0 THEN 0 ELSE -1)
  ELSE run

\* Lines 125-138 on the pin levels a, b
EncoderPoll(cap) ==
  /\ pc = "encoder"
  /\ \E a \in {0, 1}, b \in {0, 1} :
       LET encNow == encRead2(a, b)
           r      == Poll(encPrev, encNow, encAcc, semitones)
       IN  /\ Abs(edgeTotal + EdgeDelta(encPrev, encNow)) <= cap
           /\ encPrev' = r.encPrev
           /\ encAcc' = r.encAcc
           /\ semitones' = r.semitones
           /\ setSpeedLog' = r.calls
           /\ speed' = IF r.calls = <<>> THEN speed ELSE r.calls[Len(r.calls)]
           /\ edgeTotal' = edgeTotal + EdgeDelta(encPrev, encNow)
           /\ detentCount' = detentCount + r.ups - r.downs
           /\ incRun' = RunAfter(incRun, r.ups, r.downs, r.semitones)
           /\ emitted' = <<r.ups, r.downs>>
           /\ fresh' = [offset |-> r.semitones # semitones, note |-> FALSE]
  /\ pc' = "frequency"
  /\ drawn' = NoFrame
  /\ UNCHANGED <<lastHz, lastMidi, lastDraw, clock, hzRead, heldMidi,
                 uptime, sinceDraw, gateGap, turned, arg, res>>

\* Lines 125-138 where the shaft moved k edges since the previous sample:
\* the pins show the sample k places along the cycle from encPrev
EncoderPollTurning(cap, spins) ==
  /\ pc = "encoder"
  /\ \E k \in spins :
       LET encNow == Turn(encPrev, k)
           r      == Poll(encPrev, encNow, encAcc, semitones)
       IN  /\ Abs(edgeTotal + EdgeDelta(encPrev, encNow)) <= cap
           /\ encPrev' = r.encPrev
           /\ encAcc' = r.encAcc
           /\ semitones' = r.semitones
           /\ setSpeedLog' = r.calls
           /\ speed' = IF r.calls = <<>> THEN speed ELSE r.calls[Len(r.calls)]
           /\ edgeTotal' = edgeTotal + EdgeDelta(encPrev, encNow)
           /\ detentCount' = detentCount + r.ups - r.downs
           /\ incRun' = RunAfter(incRun, r.ups, r.downs, r.semitones)
           /\ emitted' = <<r.ups, r.downs>>
           /\ fresh' = [offset |-> r.semitones # semitones, note |-> FALSE]
           /\ turned' = k
  /\ pc' = "frequency"
  /\ drawn' = NoFrame
  /\ UNCHANGED <<lastHz, lastMidi, lastDraw, clock, hzRead, heldMidi,
                 uptime, sinceDraw, gateGap, arg, res>>

\* Variant of the frequency block: a rejected reading leaves the retained
\* observation as it was
FrequencyPollKeep(readings) ==
  /\ pc = "frequency"
  /\ \/ UNCHANGED <<lastHz, lastMidi, hzRead, heldMidi, fresh>>
     \/ \E hz \in readings :
          LET r == hzToNearestMidi(hz, 0)   \* int midiN: never read when rejected
          IN  /\ lastHz' = IF r.ok THEN hz ELSE lastHz
              /\ lastMidi' = IF r.ok THEN r.midiOut ELSE lastMidi
              /\ hzRead' = hz
              /\ heldMidi' = lastMidi
              /\ fresh' = [fresh EXCEPT !.note = TRUE]
  /\ pc' = "render"
  /\ setSpeedLog' = <<>>
  /\ emitted' = <<0, 0>>
  /\ turned' = 0
  /\ drawn' = NoFrame
  /\ UNCHANGED <<encPrev, encAcc, semitones, speed, lastDraw, clock,
                 edgeTotal, detentCount, incRun, uptime, sinceDraw, gateGap, arg, res>>

\* Variant of the frequency block: a rejected reading also returns the
\* offset to 0
FrequencyPollResetShift(readings) ==
  /\ pc = "frequency"
  /\ \/ UNCHANGED <<lastHz, lastMidi, hzRead, heldMidi, fresh, semitones>>
     \/ \E hz \in readings :
          LET r == hzToNearestMidi(hz, 0)
          IN  /\ lastHz' = IF r.ok THEN hz ELSE ZeroHz
              /\ lastMidi' = IF r.ok THEN r.midiOut ELSE -1
              /\ semitones' = IF r.ok THEN semitones ELSE 0
              /\ hzRead' = hz
              /\ heldMidi' = lastMidi
              /\ fresh' = [fresh EXCEPT !.note = TRUE]
  /\ pc' = "render"
  /\ setSpeedLog' = <<>>
  /\ emitted' = <<0, 0>>
  /\ turned' = 0
  /\ drawn' = NoFrame
  /\ UNCHANGED <<encPrev, encAcc, speed, lastDraw, clock,
                 edgeTotal, detentCount, incRun, uptime, sinceDraw, gateGap, arg, res>>

\* Variant of the frequency block: a rejected reading clears lastHz only
FrequencyPollHalfClear(readings) ==
  /\ pc = "frequency"
  /\ \/ UNCHANGED <<lastHz, lastMidi, hzRead, heldMidi, fresh>>
     \/ \E hz \in readings :
          LET r == hzToNearestMidi(hz, 0)
          IN  /\ lastHz' = IF r.ok THEN hz ELSE ZeroHz
              /\ lastMidi' = IF r.ok THEN r.midiOut ELSE lastMidi
              /\ hzRead' = hz
              /\ heldMidi' = lastMidi
              /\ fresh' = [fresh EXCEPT !.note = TRUE]
  /\ pc' = "render"
  /\ setSpeedLog' = <<>>
  /\ emitted' = <<0, 0>>
  /\ turned' = 0
  /\ drawn' = NoFrame
  /\ UNCHANGED <<encPrev, encAcc, semitones, speed, lastDraw, clock,
                 edgeTotal, detentCount, incRun, uptime, sinceDraw, gateGap, arg, res>>

\* Lines 141-151: nothing available, or one reading from the estimator
FrequencyPoll(readings) ==
  /\ pc = "frequency"
  /\ \/ UNCHANGED <<lastHz, lastMidi, hzRead, heldMidi, fresh>>
     \/ \E hz \in readings :
          LET r == hzToNearestMidi(hz, 0)   \* int midiN: never read when rejected
          IN  /\ lastHz' = IF r.ok THEN hz ELSE ZeroHz
              /\ lastMidi' = IF r.ok THEN r.midiOut ELSE -1
              /\ hzRead' = hz
              /\ heldMidi' = lastMidi
              /\ fresh' = [fresh EXCEPT !.note = TRUE]
  /\ pc' = "render"
  /\ setSpeedLog' = <<>>
  /\ emitted' = <<0, 0>>
  /\ turned' = 0
  /\ drawn' = NoFrame
  /\ UNCHANGED <<encPrev, encAcc, semitones, speed, lastDraw, clock,
                 edgeTotal, detentCount, incRun, uptime, sinceDraw, gateGap, arg, res>>

\* Variant of the render block: the frame shows the note retained before
\* the reading consumed last
RenderPollStale(ticks, skews, horizon) ==
  /\ pc = "render"
  /\ \E d1 \in ticks :
       LET m1 == Add32(clock, d1)
       IN  /\ uptime + d1 <= horizon
           /\ gateGap' = sinceDraw + d1
           /\ IF DrawDue(m1, lastDraw)
              THEN \E d2 \in skews :
                     /\ uptime + d1 + d2 <= horizon
                     /\ clock' = Add32(m1, d2)
                     /\ lastDraw' = Add32(m1, d2)
                     /\ uptime' = uptime + d1 + d2
                     /\ sinceDraw' = 0
                     /\ drawn' = Frame(heldMidi, lastHz, semitones)
                     /\ UNCHANGED fresh
              ELSE /\ clock' = m1
                   /\ uptime' = uptime + d1
                   /\ sinceDraw' = sinceDraw + d1
                   /\ drawn' = NoFrame
                   /\ fresh' = Untouched
                   /\ UNCHANGED lastDraw
  /\ pc' = "encoder"
  /\ setSpeedLog' = <<>>
  /\ emitted' = <<0, 0>>
  /\ UNCHANGED <<encPrev, encAcc, semitones, speed, lastHz, lastMidi, hzRead,
                 heldMidi, edgeTotal, detentCount, incRun, turned, arg, res>>

\* Lines 154-195.  The counter has advanced by d1 at the read of line 154
\* and by a further d2 at the read of line 155.
RenderPoll(ticks, skews, horizon) ==
  /\ pc = "render"
  /\ \E d1 \in ticks :
       LET m1 == Add32(clock, d1)
       IN  /\ uptime + d1 <= horizon
           /\ gateGap' = sinceDraw + d1
           /\ IF DrawDue(m1, lastDraw)
              THEN \E d2 \in skews :
                     /\ uptime + d1 + d2 <= horizon
                     /\ clock' = Add32(m1, d2)
                     /\ lastDraw' = Add32(m1, d2)
                     /\ uptime' = uptime + d1 + d2
                     /\ sinceDraw' = 0
                     /\ drawn' = Frame(lastMidi, lastHz, semitones)
                     /\ UNCHANGED fresh
              ELSE /\ clock' = m1
                   /\ uptime' = uptime + d1
                   /\ sinceDraw' = sinceDraw + d1
                   /\ drawn' = NoFrame
                   /\ fresh' = Untouched
                   /\ UNCHANGED lastDraw
  /\ pc' = "encoder"
  /\ setSpeedLog' = <<>>
  /\ emitted' = <<0, 0>>
  /\ UNCHANGED <<encPrev, encAcc, semitones, speed, lastHz, lastMidi, hzRead,
                 heldMidi, edgeTotal, detentCount, incRun, turned, arg, res>>

\* Lines 154-195 in a run that does not end: the counter advances by d1 and
\* d2 as in RenderPoll, and the elapsed-time history is left untracked
RenderPollWrapping(ticks, skews) ==
  /\ pc = "render"
  /\ \E d1 \in ticks :
       LET m1 == Add32(clock, d1)
       IN  IF DrawDue(m1, lastDraw)
           THEN \E d2 \in skews :
                  /\ clock' = Add32(m1, d2)
                  /\ lastDraw' = Add32(m1, d2)
                  /\ drawn' = Frame(lastMidi, lastHz, semitones)
                  /\ UNCHANGED fresh
           ELSE /\ clock' = m1
                /\ drawn' = NoFrame
                /\ fresh' = Untouched
                /\ UNCHANGED lastDraw
  /\ pc' = "encoder"
  /\ setSpeedLog' = <<>>
  /\ emitted' = <<0, 0>>
  /\ UNCHANGED <<encPrev, encAcc, semitones, speed, lastHz, lastMidi, hzRead,
                 heldMidi, edgeTotal, detentCount, incRun, uptime, sinceDraw,
                 gateGap, turned, arg, res>>

(* The loop: knob, estimator and display together *)

Readings == {NaN, Hz(-A4_MIDI * HzGrid), Hz(0), Hz((120 - A4_MIDI) * HzGrid)}
Ticks == {0, DRAW_PERIOD}
NoSkew == {0}
PowerOn == {U32(0)}

Init == InitLoop(PowerOn)
EncoderStep == EncoderPoll(MaxEdges)
FrequencyStep == FrequencyPoll(Readings)
RenderStep == RenderPoll(Ticks, NoSkew, DRAW_PERIOD)
Next == EncoderStep \/ FrequencyStep \/ RenderStep
Spec == Init /\ [][Next]_vars

(* The knob alone: a long turn in a silent room, within one render period *)

Silence == {}
Frozen == {0}

KnobEncoderStep == EncoderPoll(MaxTurn)
KnobFrequencyStep == FrequencyPoll(Silence)
KnobRenderStep == RenderPoll(Frozen, NoSkew, 0)
NextKnob == KnobEncoderStep \/ KnobFrequencyStep \/ KnobRenderStep
SpecKnob == Init /\ [][NextKnob]_vars

(* The estimator exercised: every kind of reading, the knob barely moved *)

MicReadings == {NaN, PosInf, NegInf, ZeroHz, NegHz(0),
                Hz(0), Hz(1), Hz((120 - A4_MIDI) * HzGrid),
                Hz(-(A4_MIDI + MaxBeyond) * HzGrid),
                Hz((MIDI_MAX - A4_MIDI + MaxBeyond) * HzGrid)}

MicEncoderStep == EncoderPoll(MaxNudge)
MicFrequencyStep == FrequencyPoll(MicReadings)
MicRenderStep == RenderPoll(Ticks, NoSkew, MaxElapsed)
NextMic == MicEncoderStep \/ MicFrequencyStep \/ MicRenderStep
SpecMic == Init /\ [][NextMic]_vars

(* The clock exercised: both boot clocks, gaps just under and at the period *)

LateBoot == [hi |-> Half - 1, lo |-> Half - WrapLead]
Boots == {U32(0), LateBoot}
ClockTicks == {0, DRAW_PERIOD \div 2, DRAW_PERIOD - 1, DRAW_PERIOD}
Skews == {0, 1}
ClockReadings == {NaN, Hz(0)}

InitClock == InitLoop(Boots)
ClockEncoderStep == EncoderPoll(EDGES_PER_DETENT)
ClockFrequencyStep == FrequencyPoll(ClockReadings)
ClockRenderStep == RenderPoll(ClockTicks, Skews, MaxElapsed)
NextClock == ClockEncoderStep \/ ClockFrequencyStep \/ ClockRenderStep
SpecClock == InitClock /\ [][NextClock]_vars

(* The knob turned fast: up to MaxSpin edges between two samples *)

Spins == (-MaxSpin) .. MaxSpin

SpinEncoderStep == EncoderPollTurning(MaxEdges, Spins)
SpinFrequencyStep == FrequencyPoll(Silence)
SpinRenderStep == RenderPoll(Frozen, NoSkew, 0)
NextSpin == SpinEncoderStep \/ SpinFrequencyStep \/ SpinRenderStep
SpecSpin == Init /\ [][NextSpin]_vars

(* The loop running for ever: the counter stands still or advances by a *)
(* quarter of its range between two reads of the gate, so that it wraps    *)

QuarterWrap == Half * (Half \div 4)
LiveTicks == {0, QuarterWrap}

LiveEncoderStep == EncoderPoll(EDGES_PER_DETENT)
LiveFrequencyStep == FrequencyPoll(ClockReadings)
LiveRenderStep == RenderPollWrapping(LiveTicks, NoSkew)
NextLive == LiveEncoderStep \/ LiveFrequencyStep \/ LiveRenderStep

\* The runtime calls loop() again and again, and the hardware timer keeps
\* counting: the gate is read again and again at a later counter value
ClockAdvances == RenderPollWrapping(LiveTicks \ {0}, NoSkew)
SpecLive == Init /\ [][NextLive]_vars /\ WF_vars(NextLive) /\ SF_vars(ClockAdvances)

(* The note helpers applied to arguments drawn from bounded sets *)

HzDomain ==
  {NaN, PosInf, NegInf, ZeroHz}
    \cup {NegHz(q) : q \in {-HzGrid, 0, HzGrid}}
    \cup {Hz(q) : q \in (-(A4_MIDI + MaxBeyond) * HzGrid)
                          .. ((MIDI_MAX - A4_MIDI + MaxBeyond) * HzGrid)}
NameDomain == (-MaxBeyond) .. (MIDI_MAX + MaxBeyond)
Buffers == {Indeterminate, <<"-", "-">>}

HzArgs == {[fn |-> "hz", hz |-> hz, n |-> n, buf |-> <<>>, len |-> 0] :
             hz \in HzDomain, n \in {-1, 0}}
NameArgs == {[fn |-> "name", hz |-> ZeroHz, n |-> n, buf |-> buf, len |-> len] :
               n \in NameDomain, buf \in Buffers, len \in {IN_NAME_LEN, BOTTOM_LEN}}

\* The loop at rest, and the arguments of one call
InitNotes ==
  /\ pc = "encoder"
  /\ encPrev = 3
  /\ encAcc = 0
  /\ semitones = 0
  /\ speed = applyPitch(0)
  /\ lastHz = ZeroHz
  /\ lastMidi = -1
  /\ clock = U32(0)
  /\ lastDraw = U32(0)
  /\ setSpeedLog = <<>>
  /\ drawn = NoFrame
  /\ hzRead = NoReading
  /\ heldMidi = -1
  /\ edgeTotal = 0
  /\ detentCount = 0
  /\ incRun = 0
  /\ emitted = <<0, 0>>
  /\ uptime = 0
  /\ sinceDraw = 0
  /\ gateGap = 0
  /\ fresh = Untouched
  /\ turned = 0
  /\ arg \in HzArgs \cup NameArgs
  /\ res = NoResult

\* hzToNearestMidi(arg.hz, midiN) with midiN holding arg.n beforehand
HzToNearestMidiCall ==
  /\ arg.fn = "hz"
  /\ ~res.done
  /\ LET r == hzToNearestMidi(arg.hz, arg.n)
     IN  res' = [done |-> TRUE, ok |-> r.ok, midiOut |-> r.midiOut, out |-> <<>>]
  /\ UNCHANGED <<arg, loopVars>>

\* midiToName(arg.n, arg.buf, arg.len) on the two buffers the loop passes
MidiToNameCall ==
  /\ arg.fn = "name"
  /\ ~res.done
  /\ LET r == midiToName(arg.n, arg.buf, arg.len)
     IN  res' = [done |-> TRUE, ok |-> r.ok, midiOut |-> 0, out |-> r.out]
  /\ UNCHANGED <<arg, loopVars>>

NextNotes == HzToNearestMidiCall \/ MidiToNameCall
SpecNotes == InitNotes /\ [][NextNotes]_vars

----------------------------------------------------------------------------
(* Claims *)

\* C1: the semitone offset stays in [-12, +12]; increment detents in a row
\* from offset 0 saturate, so that after k of them the offset is min(k, 12),
\* and after 30 of them it is 12.
C1_OffsetSaturates ==
  /\ semitones >= SEMI_MIN
  /\ semitones <= SEMI_MAX
  /\ incRun >= 0 => semitones = Min(incRun, SEMI_MAX)

\* C1 witness: thirty increment detents in a row from offset 0
C1_ThirtyDetents == incRun = 30 /\ semitones = SEMI_MAX /\ emitted = <<1, 0>>

\* C2 as stated: the signed number of detents emitted is floor(edgeTotal / 4).
C2_DetentsAreFloor == detentCount = edgeTotal \div EDGES_PER_DETENT

\* C2 amended: the signed number of detents emitted is edgeTotal / 4 rounded
\* down while the accumulator is not negative and rounded up while it is
\* negative (the loop drains toward zero in both directions).
C2_DetentsFollowAccumulator ==
  detentCount = IF encAcc >= 0
                THEN edgeTotal \div EDGES_PER_DETENT
                ELSE -((-edgeTotal) \div EDGES_PER_DETENT)

\* C2 witness: a detent dropped by saturation is counted, and the knob has
\* since moved one edge back
C2_DroppedThenBack ==
  detentCount = SEMI_MAX + 1 /\ semitones = SEMI_MAX /\ encAcc = -1

\* C3: after every poll the accumulator is strictly between -4 and 4.
C3_AccumulatorBounded ==
  -EDGES_PER_DETENT < encAcc /\ encAcc < EDGES_PER_DETENT

\* C3 witness: a poll that drained a full decrement detent
C3_DrainedDown == pc = "frequency" /\ emitted = <<0, 1>> /\ encAcc = 0

\* C4: a step gives a ratio to the engine only if it changes the semitone
\* offset; a poll without a detent, and a detent dropped at +12 or -12, give
\* none.
C4_PushOnlyOnChange ==
  [][(setSpeedLog' # <<>>) => (semitones' # semitones)]_vars

\* C4 witness: a detent dropped at +12 that made no engine call
C4_DroppedNoPush ==
  emitted = <<1, 0>> /\ semitones = SEMI_MAX /\ incRun > SEMI_MAX /\ setSpeedLog = <<>>

(* Reading a note name back: letters and "#", then a signed decimal *)

NameChars == {"A", "B", "C", "D", "E", "F", "G", "#"}

RECURSIVE NameLen(_)
NameLen(text) ==
  IF text = <<>> \/ Head(text) \notin NameChars THEN 0 ELSE 1 + NameLen(Tail(text))

DigitValue(c) == CHOOSE d \in 0..9 : DigitChar[d + 1] = c

RECURSIVE ParseNat(_)
ParseNat(text) ==
  IF text = <<>> THEN 0
  ELSE 10 * ParseNat(SubSeq(text, 1, Len(text) - 1)) + DigitValue(text[Len(text)])

ParseInt(text) ==
  IF text # <<>> /\ Head(text) = "-" THEN -ParseNat(Tail(text)) ELSE ParseNat(text)

\* the index in NOTE_NAMES and the octave that a name spells
ParseNote(text) ==
  LET k == NameLen(text)
  IN  [index  |-> (CHOOSE i \in 1..12 : NOTE_NAMES[i] = SubSeq(text, 1, k)) - 1,
       octave |-> ParseInt(SubSeq(text, k + 1, Len(text)))]

Invalid(hz) == LeZero(hz) \/ ~isfinite(hz)

C6_ClampNotReject ==
  (res.done /\ arg.fn = "hz" /\ isfinite(arg.hz) /\ GtZero(arg.hz)) =>
     LET x == NFloat(arg.hz)
     IN  /\ res.ok
         /\ res.midiOut \in 0..MIDI_MAX
         /\ 2 * x.num < -x.den => res.midiOut = 0
         /\ 2 * x.num > (2 * MIDI_MAX + 1) * x.den => res.midiOut = MIDI_MAX

\* C6 witness: a frequency more than a semitone below note 0, accepted as 0
C6_BelowRangeClamped ==
  /\ res.done /\ arg.fn = "hz" /\ GtZero(arg.hz)
  /\ arg.hz.q < -(A4_MIDI + 1) * HzGrid
  /\ res.ok /\ res.midiOut = 0

ClampMidi(m) == IF m < 0 THEN 0 ELSE IF m > MIDI_MAX THEN MIDI_MAX ELSE m

\* C7 as stated: the result is n rounded to the nearest integer with ties
\* away from zero, then clamped.
C7_TiesAwayFromZero ==
  (res.done /\ arg.fn = "hz" /\ isfinite(arg.hz) /\ GtZero(arg.hz)) =>
     res.midiOut = ClampMidi(lroundf(NFloat(arg.hz)))

\* C7 amended: where n lies in [-1/2, 127 + 1/2) the result m is an integer
\* nearest to n, |n - m| <= 1/2, and the even one of the two when n is
\* exactly halfway; 440 Hz gives 69 and 440 * 2^(1/12) Hz gives 70.
C7_TiesToEven ==
  (res.done /\ arg.fn = "hz" /\ isfinite(arg.hz) /\ GtZero(arg.hz)) =>
     LET x    == NFloat(arg.hz)
         dist == 2 * Abs(x.num - res.midiOut * x.den)
     IN  /\ (-x.den <= 2 * x.num /\ 2 * x.num < (2 * MIDI_MAX + 1) * x.den) =>
              /\ dist <= x.den
              /\ dist = x.den => res.midiOut % 2 = 0
         /\ arg.hz.q = 0 => res.midiOut = A4_MIDI
         /\ arg.hz.q = HzGrid => res.midiOut = A4_MIDI + 1

\* C7 witness: n = 70 + 1/2, halfway between 70 and 71, gives 70
C7_HalfwayGoesToEven ==
  /\ res.done /\ arg.fn = "hz" /\ GtZero(arg.hz)
  /\ 2 * NFloat(arg.hz).num = (2 * (A4_MIDI + 1) + 1) * NFloat(arg.hz).den
  /\ res.midiOut = A4_MIDI + 1

\* C8: midiToName accepts exactly the n in [0, 127] and leaves the buffer
\* alone otherwise; the name it writes spells NOTE_NAMES[n mod 12] and the
\* octave floor(n / 12) - 1, so octave * 12 + 12 + index is n; 69 is A4,
\* 60 is C4, 0 is C-1.
C8_NameRoundTrip ==
  (res.done /\ arg.fn = "name") =>
     /\ res.ok <=> arg.n \in 0..MIDI_MAX
     /\ ~res.ok => res.out = arg.buf
     /\ res.ok =>
          LET p == ParseNote(res.out)
          IN  /\ p.index = arg.n % 12
              /\ p.octave = (arg.n \div 12) - 1
              /\ p.octave * 12 + 12 + p.index = arg.n
     /\ arg.n = 69 => res.out = <<"A", "4">>
     /\ arg.n = 60 => res.out = <<"C", "4">>
     /\ arg.n = 0 => res.out = <<"C", "-", "1">>

\* C8 witness: note 0 accepted and named C-1
C8_LowestNoteNamed ==
  res.done /\ arg.fn = "name" /\ arg.n = 0 /\ res.ok /\ res.out = <<"C", "-", "1">>

\* C9: a render with a retained note shows as output note the name of
\* lastMidi + semitones brought into [0, 127], and midiToName accepts it;
\* 69 shifted by +12 shows A5, 120 shifted by +12 shows the name of 127.
C9_OutputNoteClamped ==
  (drawn.rendered /\ lastMidi >= 0) =>
     LET p    == ParseNote(drawn.bottom)
         sum  == lastMidi + semitones
         want == IF sum < 0 THEN 0 ELSE IF sum > MIDI_MAX THEN MIDI_MAX ELSE sum
     IN  /\ drawn.outOk
         /\ drawn.inOk
         /\ p.octave * 12 + 12 + p.index = want
         /\ (lastMidi = A4_MIDI /\ semitones = SEMI_MAX) => drawn.bottom = <<"A", "5">>
         /\ (lastMidi = 120 /\ semitones = SEMI_MAX) => drawn.bottom = <<"G", "9">>

\* C9 witness: note 120 rendered with shift +12, the sum brought down to 127
C9_TopNoteShiftedUp ==
  drawn.rendered /\ lastMidi = 120 /\ semitones = SEMI_MAX /\ drawn.bottom = <<"G", "9">>

\* C10: a step renders only if at least 120 real milliseconds have passed
\* since lastDraw was assigned, also when the counter wrapped in between.
C10_RenderNotBeforePeriod ==
  drawn.rendered => gateGap >= DRAW_PERIOD

\* C10 witness: a render after the counter wrapped past 2^32
C10_RenderAcrossWrap ==
  drawn.rendered /\ lastDraw.hi = 0 /\ uptime > lastDraw.lo /\ gateGap >= DRAW_PERIOD

\* the offset that a shift line "%+d" spells
ParseShift(text) ==
  IF Head(text) = "-" THEN -ParseNat(Tail(text)) ELSE ParseNat(Tail(text))

\* C11: every iteration runs the encoder step, then the frequency step, then
\* the render step, and a frame is drawn by the render step only, from the
\* offset and the retained observation as the two earlier steps of the same
\* iteration left them.
C11_RenderAfterUpdates ==
  [][/\ pc = "encoder" => pc' = "frequency"
     /\ pc = "frequency" => pc' = "render"
     /\ pc = "render" => pc' = "encoder"
     /\ drawn'.rendered =>
          /\ pc = "render"
          /\ ParseShift(drawn'.middle) = semitones
          /\ drawn'.blankTop = ~(lastMidi >= 0 /\ GtZero(lastHz))
          /\ ~drawn'.blankTop =>
               LET p == ParseNote(drawn'.inName)
               IN  /\ drawn'.hz = lastHz
                   /\ p.octave * 12 + 12 + p.index = lastMidi]_vars

\* C11 witness: a frame showing a detent and a reading of its own iteration
C11_SameIterationShown ==
  /\ drawn.rendered /\ fresh.offset /\ fresh.note
  /\ semitones = 1 /\ drawn.middle = <<"+", "1">>
  /\ heldMidi = -1 /\ lastMidi = A4_MIDI /\ drawn.inName = <<"A", "4">>

\* C12 as stated: a poll taken after the shaft moved by two detents or more
\* since the previous sample emits more than one detent.
C12_SeveralDetentsInOnePoll ==
  (pc = "frequency" /\ Abs(turned) >= 2 * EDGES_PER_DETENT) =>
     emitted[1] + emitted[2] >= 2

\* C12: a poll emits at most one detent, however many edges the shaft moved
\* since the previous sample: it adds to the accumulator the edges moved
\* modulo 4, taken as +1, -1 or (for 0 and 2) nothing, and the detent it
\* emits, if any, moves the offset by one within that poll unless the offset
\* is at its bound.
C12_OneDetentPerPoll ==
  [][pc = "encoder" =>
       LET ups    == emitted'[1]
           downs  == emitted'[2]
           change == encAcc' + EDGES_PER_DETENT * (ups - downs) - encAcc
       IN  /\ ups + downs <= 1
           /\ change = (CASE turned' % 4 = 1 -> 1
                          [] turned' % 4 = 3 -> -1
                          [] OTHER -> 0)
           /\ semitones' = constrain(semitones + ups - downs, SEMI_MIN, SEMI_MAX)]_vars

\* C12 witness: nine edges moved between two samples, one detent emitted
C12_NineEdgesOneDetent ==
  /\ pc = "frequency" /\ turned = 2 * EDGES_PER_DETENT + 1
  /\ emitted = <<1, 0>> /\ semitones = 1 /\ encAcc = 0

\* how many of the two bits differ between samples x and y
BitsChanged(x, y) ==
  (IF x \div 2 # y \div 2 THEN 1 ELSE 0) + (IF x % 2 # y % 2 THEN 1 ELSE 0)

\* C13: for every pair of 2-bit samples the table index is in 0..15 and the
\* table has an entry there; a poll whose sample equals the previous one or
\* differs from it in both bits leaves the accumulator and the offset as they
\* were, emits no detent and pushes no ratio; a poll whose sample differs in
\* exactly one bit changes the accumulator by +1 or -1 before draining.
C13_DecoderTotalBounceSafe ==
  [][pc = "encoder" =>
       LET bits   == BitsChanged(encPrev, encPrev')
           change == encAcc' + EDGES_PER_DETENT * (emitted'[1] - emitted'[2]) - encAcc
       IN  /\ \A p \in 0..3, n \in 0..3 :
                /\ EncIdx(p, n) \in 0..15
                /\ EncIdx(p, n) + 1 \in DOMAIN ENC_TAB
                /\ ENC_TAB[EncIdx(p, n) + 1] \in {-1, 0, 1}
           /\ turned' % 4 = 2 => bits = 2
           /\ bits \in {0, 2} =>
                /\ encAcc' = encAcc
                /\ semitones' = semitones
                /\ emitted' = <<0, 0>>
                /\ setSpeedLog' = <<>>
           /\ bits = 1 => Abs(change) = 1]_vars

\* C13 witness: a two-bit jump taken one edge short of a detent, nothing emitted
C13_BounceShortOfDetent ==
  /\ pc = "frequency" /\ turned = 2
  /\ encAcc = EDGES_PER_DETENT - 1 /\ emitted = <<0, 0>> /\ semitones = 0

\* C14: in every state, 4 times the detents emitted so far (increment minus
\* decrement, those dropped at a bound included) plus the accumulator equals
\* the signed total of the per-poll edge deltas since power-on.
C14_EdgesConserved ==
  EDGES_PER_DETENT * detentCount + encAcc = edgeTotal

\* C14 witness: two detents dropped at +12, then three edges of progress
C14_DroppedAndPartial ==
  /\ semitones = SEMI_MAX /\ detentCount = SEMI_MAX + 2
  /\ encAcc = EDGES_PER_DETENT - 1
  /\ edgeTotal = EDGES_PER_DETENT * (SEMI_MAX + 2) + EDGES_PER_DETENT - 1

\* C15: the encoder step leaves lastHz, lastMidi and lastDraw unchanged; the
\* frequency step, whatever it reads, leaves semitones, encAcc, encPrev and
\* the ratio of the engine unchanged and pushes no ratio; the render step
\* leaves all of these but lastDraw unchanged and pushes no ratio.
C15_StepsKeepToOwnState ==
  [][/\ pc = "encoder" => UNCHANGED <<lastHz, lastMidi, lastDraw>>
     /\ pc = "frequency" =>
          /\ UNCHANGED <<semitones, encAcc, encPrev, speed, lastDraw>>
          /\ setSpeedLog' = <<>>
     /\ pc = "render" =>
          /\ UNCHANGED <<semitones, encAcc, encPrev, speed, lastHz, lastMidi>>
          /\ setSpeedLog' = <<>>]_vars

\* C15 witness: a rejected reading has just cleared a retained note while
\* the offset is +1
C15_RejectedReadingKeepsShift ==
  /\ pc = "render" /\ fresh.note /\ hzRead = NaN
  /\ heldMidi = A4_MIDI /\ lastMidi = -1
  /\ semitones = 1 /\ speed = applyPitch(1)

\* C16: a render step that reads the counter with the 32-bit difference
\* millis() - lastDraw at 120 or more draws a frame in that same step; and
\* while loop() keeps being called and the counter keeps advancing, frames
\* are drawn again and again, also after the counter wrapped past 2^32.
C16_GateNeverStarves ==
  /\ [][pc = "render" =>
          LET gap == Sub32(clock', lastDraw)
          IN  (gap.hi > 0 \/ gap.lo >= DRAW_PERIOD) => drawn'.rendered]_vars
  /\ []<>(drawn.rendered)

\* C16 witness: a frame drawn when the counter has wrapped back to 0
C16_RenderAfterWrap ==
  drawn.rendered /\ clock = U32(0) /\ lastDraw = U32(0)

\* C17: in every state from the end of setup on, the ratio last given to the
\* engine is 2^(semitones / 12) for the current offset, with the exponent in
\* [-1, 1], that is, a ratio in [0.5, 2]; a step that gives the engine a
\* ratio gives that of the offset it leaves.
C17_EngineRatioCurrent ==
  /\ speed.base = 2
  /\ speed.num = semitones
  /\ speed.den = 12
  /\ -speed.den <= speed.num /\ speed.num <= speed.den
  /\ setSpeedLog # <<>> => setSpeedLog[Len(setSpeedLog)].num = semitones

\* C17 witness: the detent that brings the offset to -12 has pushed ratio 1/2
C17_LowestRatioPushed ==
  /\ semitones = SEMI_MIN /\ emitted = <<0, 1>>
  /\ setSpeedLog = <<[base |-> 2, num |-> -12, den |-> 12]>>
  /\ speed = [base |-> 2, num |-> -12, den |-> 12]

\* C18: in every state the retained observation is lastMidi = -1 with
\* lastHz = 0, or lastMidi in [0, 127] with lastHz finite and above 0; and
\* every frame shows the placeholder on the input line exactly when it shows
\* the placeholder as output note.
C18_ObservationAllOrNothing ==
  /\ \/ lastMidi = -1 /\ lastHz = ZeroHz
     \/ lastMidi \in 0..MIDI_MAX /\ GtZero(lastHz) /\ isfinite(lastHz)
  /\ drawn.rendered =>
       /\ drawn.blankTop <=> (drawn.bottom = <<"-", "-">>)
       /\ drawn.blankTop <=> (lastMidi = -1)

\* C18 witness: a frame with both lines real for note 0, the lowest value
\* that passes the tests lastMidi >= 0 of the render block
C18_BothLinesRealAtZero ==
  /\ drawn.rendered /\ lastMidi = 0 /\ semitones = 0
  /\ ~drawn.blankTop /\ drawn.inName = <<"C", "-", "1">>
  /\ drawn.bottom = <<"C", "-", "1">>

\* C19: a detent beyond a bound is discarded: the edge that completes an
\* increment detent at offset +12 leaves the offset at +12 and the
\* accumulator at 0, and from there the edge that completes a decrement
\* detent, 4 edges back, lowers the offset to 11 however many detents were
\* dropped before; the same holds mirrored at -12.  Every detent, dropped
\* or not, is emitted at an edge total that is 4 times the detent count.
C19_DroppedNotQueued ==
  [][pc = "encoder" =>
       LET step == edgeTotal' - edgeTotal
           last == EDGES_PER_DETENT - 1
       IN  /\ (semitones = SEMI_MAX /\ encAcc = last /\ step = 1) =>
                (semitones' = SEMI_MAX /\ encAcc' = 0 /\ emitted' = <<1, 0>>)
           /\ (semitones = SEMI_MAX /\ encAcc = -last /\ step = -1) =>
                (semitones' = SEMI_MAX - 1 /\ encAcc' = 0 /\ emitted' = <<0, 1>>)
           /\ (semitones = SEMI_MIN /\ encAcc = -last /\ step = -1) =>
                (semitones' = SEMI_MIN /\ encAcc' = 0 /\ emitted' = <<0, 1>>)
           /\ (semitones = SEMI_MIN /\ encAcc = last /\ step = 1) =>
                (semitones' = SEMI_MIN + 1 /\ encAcc' = 0 /\ emitted' = <<1, 0>>)
           /\ emitted' # <<0, 0>> => edgeTotal' = EDGES_PER_DETENT * detentCount']_vars

\* C19 witness: two increment detents dropped at +12 (edge total 56), then
\* the decrement detent 4 edges back has lowered the offset to 11
C19_BackFromBeyondTop ==
  /\ emitted = <<0, 1>> /\ semitones = SEMI_MAX - 1
  /\ detentCount = SEMI_MAX + 1
  /\ edgeTotal = EDGES_PER_DETENT * (SEMI_MAX + 1)

====
